---- MODULE Spec2Model ----
(***************************************************************************)
(* Model of the chunking / embedding / retrieval core of VectorLaw:        *)
(*   utils/embed.py  chunk_text, trim_non_content, main (the builder)      *)
(*   utils/rag.py    load_vector_store, query_document                     *)
(* Texts are sequences of one-character strings; a word is a non-empty     *)
(* sequence of non-whitespace characters.                                  *)
(***************************************************************************)
EXTENDS Integers, Sequences, FiniteSets, TLC

\* ------------------------------------------------------------------ bounds
MaxTextLen == 7
MaxSize == 3
MaxOverlap == 3
MaxRows == 3
MaxTopK == 4
MaxBatch == 2

\* ------------------------------------------------------- generic helpers
Min(a, b) == IF a <= b THEN a ELSE b
Max(a, b) == IF a >= b THEN a ELSE b

\* ceil(a / b) for b > 0
CeilDiv(a, b) == -((-a) \div b)

Range(s) == {s[i] : i \in 1..Len(s)}

IsPrefix(p, s) == Len(p) <= Len(s) /\ SubSeq(s, 1, Len(p)) = p

\* Python list slice s[lo:hi] for 0-based integer lo and hi
\* (a negative bound counts from the end, and is clamped at 0).
PySlice(s, lo, hi) ==
  LET l == IF lo < 0 THEN Max(0, lo + Len(s)) ELSE Min(lo, Len(s))
      h == IF hi < 0 THEN Max(0, hi + Len(s)) ELSE Min(hi, Len(s))
  IN  IF l >= h THEN <<>> ELSE SubSeq(s, l + 1, h)

\* ------------------------------------------------------------------ text
Letters == {"a", "b"}
Whitespace == {" ", "\n", "\f"}
Chars == Letters \cup {" "}

TextsUpTo(n) == UNION {[1..k -> Chars] : k \in 0..n}

\* str.strip(): drop leading and trailing whitespace
RECURSIVE LStrip(_)
LStrip(s) == IF s # <<>> /\ Head(s) \in Whitespace THEN LStrip(Tail(s)) ELSE s

RECURSIVE RStrip(_)
RStrip(s) ==
  IF s # <<>> /\ s[Len(s)] \in Whitespace
  THEN RStrip(SubSeq(s, 1, Len(s) - 1)) ELSE s

Strip(s) == RStrip(LStrip(s))

\* str.split(): the maximal runs of non-whitespace characters, in order
RECURSIVE SplitFrom(_, _, _)
SplitFrom(s, cur, acc) ==
  IF s = <<>>
  THEN IF cur = <<>> THEN acc ELSE Append(acc, cur)
  ELSE IF Head(s) \in Whitespace
       THEN SplitFrom(Tail(s), <<>>, IF cur = <<>> THEN acc ELSE Append(acc, cur))
       ELSE SplitFrom(Tail(s), Append(cur, Head(s)), acc)

Split(s) == SplitFrom(s, <<>>, <<>>)

\* " ".join(ws)
RECURSIVE Join(_)
Join(ws) ==
  IF ws = <<>> THEN <<>>
  ELSE IF Len(ws) = 1 THEN ws[1]
  ELSE ws[1] \o <<" ">> \o Join(Tail(ws))

\* ------------------------------------------------------------ chunk_text
WindowEndOffByOne(total_words, start, chunk_size) ==
  Min(total_words, start + chunk_size + 1)

\* embed.py:43  end = min(total_words, start + chunk_size)
WindowEnd(total_words, start, chunk_size) == Min(total_words, start + chunk_size)

\* embed.py:44  chunk = " ".join(words[start:end]).strip()
WindowChunk(words, start, end) == Strip(Join(PySlice(words, start, end)))

StepSizeNoFloor(chunk_size, chunk_overlap) == chunk_size - chunk_overlap

StepSizeNoOverlap(chunk_size, chunk_overlap) == Max(1, chunk_size)

StepSizeOffByOne(chunk_size, chunk_overlap) == Max(1, chunk_size - chunk_overlap + 1)

\* embed.py:50  max(1, chunk_size - chunk_overlap)
StepSize(chunk_size, chunk_overlap) == Max(1, chunk_size - chunk_overlap)

KeepChunkAlways(chunk) == TRUE

\* embed.py:45  if chunk:
KeepChunk(chunk) == chunk # <<>>

VARIABLES
  c_pc,            \* "call" | "loop" | "done"
  text,            \* argument text
  chunk_size,      \* argument chunk_size
  chunk_overlap,   \* argument chunk_overlap
  words,           \* local words
  start,           \* local start
  chunks,          \* local chunks / the returned list
  c_iters          \* number of executions of the loop body so far

c_vars == <<c_pc, text, chunk_size, chunk_overlap, words, start, chunks, c_iters>>

VARIABLES
  q_pc,            \* "idle" | "returned" | "raised"
  store,           \* the loaded vector store: document name -> entry
  doc_name,        \* argument doc_name
  top_k,           \* argument top_k
  query_vector,    \* the embedding the provider returned for the query
  similarities,    \* local similarities (indexed from 0)
  top_indices,     \* local top_indices
  results,         \* the returned list
  q_error          \* the exception raised, if any

q_vars == <<q_pc, store, doc_name, top_k, query_vector, similarities,
            top_indices, results, q_error>>

VARIABLES
  b_pc,             \* "start" | "embedding" | "waiting" | "done" | "failed"
  documents,        \* document name -> text, as load_documents returns it
  no_trim_content,  \* args.no_trim_content
  build_sizes,      \* <<args.chunk_size, args.chunk_overlap>>
  batch_size,       \* args.batch_size
  chunk_records,    \* the flat list of chunk records
  enriched_records, \* the records with their embeddings
  batch_start,      \* the loop variable start of the embedding loop
  requests,         \* the batches sent to the embedding endpoint so far
  output_file       \* what is at output_path

b_vars == <<b_pc, documents, no_trim_content, build_sizes, batch_size, chunk_records,
            enriched_records, batch_start, requests, output_file>>

\* load_vector_store (the call, what it read and what it returned or raised)
VARIABLES
  load_pc,         \* "off", "ready", "loaded", "raised"
  file_reads,      \* how many times the file was opened and deserialized
  loaded_store,    \* the store returned
  load_error       \* the exception raised, "none" if none
l_vars == <<load_pc, file_reads, loaded_store, load_error>>

\* trim_non_content (one call)
VARIABLES
  trim_pc,         \* "off" | "start" | "head" | "tail" | "scan" | "returned"
  trim_text,       \* argument text
  cleaned,         \* local cleaned
  pat_index,       \* the position of the loop in the pattern list (from 1)
  tail_pass,       \* 0 before the tail loops, then 1 or 2
  trimmed,         \* local trimmed
  trim_log,        \* the substitutions made so far, in order
  trim_result      \* the returned text
t_vars == <<trim_pc, trim_text, cleaned, pat_index, tail_pass, trimmed, trim_log,
            trim_result>>

vars == <<c_vars, q_vars, b_vars, l_vars, t_vars>>

NoError == [type |-> "none", doc |-> <<>>, available |-> <<>>]

ChunkIdle ==
  /\ c_pc = "idle" /\ text = <<>> /\ chunk_size = 0 /\ chunk_overlap = 0
  /\ words = <<>> /\ start = 0 /\ chunks = <<>> /\ c_iters = 0

QueryIdle ==
  /\ q_pc = "off" /\ store = <<>> /\ doc_name = <<>> /\ top_k = 0
  /\ query_vector = <<>> /\ similarities = <<>> /\ top_indices = <<>>
  /\ results = <<>> /\ q_error = NoError

NoFile == [exists |-> FALSE, content |-> <<>>]

BuildIdle ==
  /\ b_pc = "off" /\ documents = <<>> /\ no_trim_content = FALSE
  /\ build_sizes = <<0, 0>>
  /\ batch_size = 0 /\ chunk_records = <<>> /\ enriched_records = <<>>
  /\ batch_start = 0 /\ requests = <<>> /\ output_file = NoFile

LoadIdle ==
  /\ load_pc = "off" /\ file_reads = 0 /\ loaded_store = <<>> /\ load_error = "none"

TrimIdle ==
  /\ trim_pc = "off" /\ trim_text = <<>> /\ cleaned = <<>> /\ pat_index = 0
  /\ tail_pass = 0 /\ trimmed = FALSE /\ trim_log = <<>> /\ trim_result = <<>>

LoadIdleReady ==
  /\ load_pc = "ready" /\ file_reads = 0 /\ loaded_store = <<>> /\ load_error = "none"

Sizes == (-1)..MaxSize
Overlaps == (-2)..MaxOverlap

ChunkInit ==
  /\ c_pc = "call"
  /\ text \in TextsUpTo(MaxTextLen)
  /\ chunk_size \in Sizes
  /\ chunk_overlap \in Overlaps
  /\ words = <<>>
  /\ start = 0
  /\ chunks = <<>>
  /\ c_iters = 0
  /\ QueryIdle
  /\ BuildIdle
  /\ LoadIdle
  /\ TrimIdle

\* embed.py:34-40  split, early return on no words, initialise the loop
ChunkEnter ==
  /\ c_pc = "call"
  /\ words' = Split(text)
  /\ c_pc' = IF words' = <<>> THEN "done" ELSE "loop"
  /\ UNCHANGED <<text, chunk_size, chunk_overlap, start, chunks, c_iters, q_vars, b_vars, l_vars, t_vars>>

ChunkIterNoBreak ==
  /\ c_pc = "loop"
  /\ start < Len(words)
  /\ LET end == WindowEnd(Len(words), start, chunk_size)
         chunk == WindowChunk(words, start, end)
     IN  chunks' = IF KeepChunk(chunk) THEN Append(chunks, chunk) ELSE chunks
  /\ c_pc' = "loop"
  /\ start' = start + StepSize(chunk_size, chunk_overlap)
  /\ c_iters' = c_iters + 1
  /\ UNCHANGED <<text, chunk_size, chunk_overlap, words, q_vars, b_vars, l_vars, t_vars>>

\* embed.py:42-50  one execution of the loop body
ChunkIter ==
  /\ c_pc = "loop"
  /\ start < Len(words)
  /\ LET end == WindowEnd(Len(words), start, chunk_size)
         chunk == WindowChunk(words, start, end)
     IN  /\ chunks' = IF KeepChunk(chunk) THEN Append(chunks, chunk) ELSE chunks
         /\ IF end >= Len(words)
            THEN c_pc' = "done" /\ start' = start
            ELSE c_pc' = "loop" /\ start' = start + StepSize(chunk_size, chunk_overlap)
  /\ c_iters' = c_iters + 1
  /\ UNCHANGED <<text, chunk_size, chunk_overlap, words, q_vars, b_vars, l_vars, t_vars>>

\* embed.py:42,52  the while condition fails: return chunks
ChunkExit ==
  /\ c_pc = "loop"
  /\ ~(start < Len(words))
  /\ c_pc' = "done"
  /\ UNCHANGED <<text, chunk_size, chunk_overlap, words, start, chunks, c_iters, q_vars, b_vars, l_vars, t_vars>>

ChunkNext == ChunkEnter \/ ChunkIter \/ ChunkExit

SpecChunk == ChunkInit /\ [][ChunkNext]_vars

\* =================================================== utils/rag.py ======
\* ------------------------------------------------------------ embeddings
\* Vectors are pairs of fixed-point numbers in units of 1e-4, so a dot
\* product and a product of norms are in units of 1e-8, where the 1e-8 of
\* rag.py:79 is 1.  A similarity is kept in units of 1e-6.
EpsilonMicro == 10 * 10

Epsilon == 1

E1 == <<10000, 0>>
V68 == <<6000, 8000>>
V86 == <<8000, 6000>>
RowVecs == {E1, V68, V86}
QueryVecs == {E1, V68}

Dot(a, b) == a[1] * b[1] + a[2] * b[2]

\* floor of the square root, by bisection on lo..hi
RECURSIVE ISqrtIn(_, _, _)
ISqrtIn(n, lo, hi) ==
  IF lo >= hi THEN lo
  ELSE LET mid == (lo + hi + 1) \div 2
       IN  IF mid * mid <= n THEN ISqrtIn(n, mid, hi) ELSE ISqrtIn(n, lo, mid - 1)

\* np.linalg.norm, in units of 1e-4
Norm(v) == ISqrtIn(Dot(v, v), 0, 20000)

\* the first k decimal digits of r / den for 0 <= r < den
RECURSIVE FracDigits(_, _, _)
FracDigits(r, den, k) ==
  IF k = 0 THEN 0
  ELSE LET r10 == r * 10
       IN  (r10 \div den) * (10 ^ (k - 1)) + FracDigits(r10 % den, den, k - 1)

\* num / den in units of 1e-6 (truncated towards zero), den > 0
Ratio(num, den) ==
  LET a == IF num < 0 THEN -num ELSE num
      m == (a \div den) * 1000000 + FracDigits(a % den, den, 6)
  IN  IF num < 0 THEN -m ELSE m

\* rag.py:77-79  (row @ q) / (norm(row) * norm(q) + 1e-8)
Cosine(row, q) == Ratio(Dot(row, q), Norm(row) * Norm(q) + Epsilon)

RECURSIVE CosineRows(_, _)
CosineRows(emb, q) ==
  IF emb = <<>> THEN <<>> ELSE <<Cosine(Head(emb), q)>> \o CosineRows(Tail(emb), q)

\* rag.py:79  similarities, indexed 0..N-1 as in the source
Similarities(emb, q) ==
  LET row == CosineRows(emb, q) IN [i \in 0..(Len(emb) - 1) |-> row[i + 1]]

\* -------------------------------------------------------- document names
\* Names are strings (sequences of characters), ordered as Python orders
\* str: by code point, a proper prefix first.
DocNames == {<<"a">>, <<"a", "b">>, <<"b">>}

Ord(c) == CASE c = " " -> 32 [] c = "," -> 44 [] c = "a" -> 97 [] c = "b" -> 98

RECURSIVE StrLess(_, _)
StrLess(x, y) ==
  IF y = <<>> THEN FALSE
  ELSE IF x = <<>> THEN TRUE
  ELSE IF Head(x) # Head(y) THEN Ord(Head(x)) < Ord(Head(y))
  ELSE StrLess(Tail(x), Tail(y))

RECURSIVE KeysDescending(_)
KeysDescending(S) ==
  IF S = {} THEN <<>>
  ELSE LET m == CHOOSE x \in S : \A y \in S : x = y \/ StrLess(y, x)
       IN  <<m>> \o KeysDescending(S \ {m})

\* rag.py:64  sorted(store.keys())
RECURSIVE SortedKeys(_)
SortedKeys(S) ==
  IF S = {} THEN <<>>
  ELSE LET m == CHOOSE x \in S : \A y \in S : x = y \/ StrLess(x, y)
       IN  <<m>> \o SortedKeys(S \ {m})

\* rag.py:64  ", ".join(names)
RECURSIVE JoinComma(_)
JoinComma(names) ==
  IF names = <<>> THEN <<>>
  ELSE IF Len(names) = 1 THEN names[1]
  ELSE names[1] \o <<",", " ">> \o JoinComma(Tail(names))

\* rag.py:64-65  the KeyError raised for a missing document
NotFoundError(store_keys, name) ==
  [type |-> "KeyError", doc |-> name, available |-> JoinComma(SortedKeys(store_keys))]

\* ------------------------------------------------------ chunk collections
\* A chunk collection is a list, a dict (its (key, value) pairs in insertion
\* order) or some other object.  A dict key is an int n, the digit string
\* str(n), a string that is not all digits (numbered to tell them apart), or
\* a string of digit characters that are not decimal digits, such as a
\* superscript two: str.isdigit() is True for it and int() rejects it.
IntKey(n) == [t |-> "int", n |-> n]
StrKey(n) == [t |-> "str", n |-> n]
NameKey(n) == [t |-> "name", n |-> n]
SuperscriptKey(n) == [t |-> "superscript", n |-> n]

ListOf(ms) == [kind |-> "list", items |-> ms]
DictOf(pairs) == [kind |-> "dict", items |-> pairs]
OtherObject == [kind |-> "other", items |-> <<>>]

\* the text of the chunk at position i of a document
TextAt(i) == [j \in 1..(i + 1) |-> "a"]

\* chunk metadata: a dict with optional "chunk_index" and "text", or a str
FullMeta(i) == [kind |-> "dict", fields |-> {"chunk_index", "text"},
                chunk_index |-> i, text |-> TextAt(i)]
EmptyMeta(i) == [kind |-> "dict", fields |-> {}, chunk_index |-> 0, text |-> <<>>]
StrMeta(i) == [kind |-> "str", fields |-> {}, chunk_index |-> 0, text |-> TextAt(i)]

Infinity == 1000000

HasKey(pairs, k) == \E i \in 1..Len(pairs) : pairs[i][1] = k
ValueAt(pairs, k) == pairs[CHOOSE i \in 1..Len(pairs) : pairs[i][1] = k][2]

\* rag.py:103  int(x) if str(x).isdigit() else float('inf')
SortKey(k) == IF k.t \in {"int", "str"} /\ k.n >= 0 THEN k.n ELSE Infinity

\* rag.py:103  the key function raises ValueError: isdigit() but not an int
SortKeyRaises(k) == k.t = "superscript"

\* rag.py:103  sorted(chunks.keys(), key=...): stable insertion sort
RECURSIVE InsertKey(_, _)
InsertKey(sorted, k) ==
  IF sorted = <<>> THEN <<k>>
  ELSE IF SortKey(sorted[Len(sorted)]) <= SortKey(k) THEN Append(sorted, k)
  ELSE Append(InsertKey(SubSeq(sorted, 1, Len(sorted) - 1), k), sorted[Len(sorted)])

RECURSIVE SortedChunkKeys(_)
SortedChunkKeys(pairs) ==
  IF pairs = <<>> THEN <<>>
  ELSE InsertKey(SortedChunkKeys(SubSeq(pairs, 1, Len(pairs) - 1)), pairs[Len(pairs)][1])

Found(m) == [found |-> TRUE, meta |-> m]
Skip == [found |-> FALSE, meta |-> EmptyMeta(0)]

ResolveListOnly(chunks_, idx) ==
  IF chunks_.kind = "list" /\ idx < Len(chunks_.items)
  THEN Found(chunks_.items[idx + 1]) ELSE Skip

\* rag.py:89-109  the chunk metadata for row idx, or skip ("continue")
ResolveMeta(chunks_, idx) ==
  IF chunks_.kind = "list"
  THEN IF idx < Len(chunks_.items) THEN Found(chunks_.items[idx + 1]) ELSE Skip
  ELSE IF chunks_.kind = "dict"
  THEN IF HasKey(chunks_.items, IntKey(idx))
       THEN Found(ValueAt(chunks_.items, IntKey(idx)))
       ELSE IF HasKey(chunks_.items, StrKey(idx))
       THEN Found(ValueAt(chunks_.items, StrKey(idx)))
       ELSE LET chunk_keys == SortedChunkKeys(chunks_.items)
            IN  IF idx < Len(chunk_keys)
                THEN Found(ValueAt(chunks_.items, chunk_keys[idx + 1]))
                ELSE Skip
  ELSE Skip

\* rag.py:97-103  row idx reaches the positional fallback and sorting the
\* keys raises
ResolveRaises(chunks_, idx) ==
  /\ chunks_.kind = "dict"
  /\ ~HasKey(chunks_.items, IntKey(idx))
  /\ ~HasKey(chunks_.items, StrKey(idx))
  /\ \E i \in 1..Len(chunks_.items) : SortKeyRaises(chunks_.items[i][1])

\* rag.py:87-109  the loop over top_indices raises at one of the rows
DecodeRaises(chunks_, idxs) == \E i \in 1..Len(idxs) : ResolveRaises(chunks_, idxs[i])

\* rag.py:112-126  the result entry built from the metadata of row idx
ResultEntry(meta, idx, sim) ==
  IF meta.kind = "dict"
  THEN [chunk_index |-> IF "chunk_index" \in meta.fields THEN meta.chunk_index ELSE idx,
        similarity |-> sim,
        text |-> IF "text" \in meta.fields THEN meta.text ELSE <<>>]
  ELSE [chunk_index |-> idx, similarity |-> sim, text |-> meta.text]

\* rag.py:83-127  the loop over top_indices
RECURSIVE BuildResults(_, _, _)
BuildResults(chunks_, sims, idxs) ==
  IF idxs = <<>> THEN <<>>
  ELSE LET r == ResolveMeta(chunks_, Head(idxs))
           rest == BuildResults(chunks_, sims, Tail(idxs))
       IN  IF r.found
           THEN <<ResultEntry(r.meta, Head(idxs), sims[Head(idxs)])>> \o rest
           ELSE rest

Reverse(s) == [i \in 1..Len(s) |-> s[Len(s) + 1 - i]]

\* the orders numpy's argsort may return: the permutations of 0..N-1 along
\* which the similarities do not decrease (the default sort is not stable)
RECURSIVE AscendingOrders(_, _)
AscendingOrders(sims, S) ==
  IF S = {} THEN {<<>>}
  ELSE UNION {{<<m>> \o p : p \in AscendingOrders(sims, S \ {m})} :
                m \in {x \in S : \A y \in S : sims[x] <= sims[y]}}

ArgSorts(sims, N) == AscendingOrders(sims, 0..(N - 1))

TopIndicesFirstK(order, k) == Reverse(PySlice(order, 0, k))

TopIndicesNoReverse(order, k) == PySlice(order, -k, Len(order))

\* rag.py:81  order[-top_k:][::-1]
TopIndices(order, k) == Reverse(PySlice(order, -k, Len(order)))

\* ------------------------------------------------------- query_document
\* the stores queried: embedding matrices of 0..MaxRows rows, and chunk
\* collections of every shape the reader accepts
Matrices == UNION {[1..n -> RowVecs] : n \in 0..MaxRows}

MetaKinds == {"full", "empty", "str"}
MetaOf(kind, i) ==
  CASE kind = "full" -> FullMeta(i) [] kind = "empty" -> EmptyMeta(i) [] kind = "str" -> StrMeta(i)
MetaList(kind, M) == [i \in 1..M |-> MetaOf(kind, i - 1)]

IntMapOf(ms) == DictOf([i \in 1..Len(ms) |-> <<IntKey(i - 1), ms[i]>>])
StrMapOf(ms) == DictOf([i \in 1..Len(ms) |-> <<StrKey(i - 1), ms[i]>>])
ShiftedMapOf(ms) == DictOf([i \in 1..Len(ms) |-> <<IntKey(i), ms[i]>>])
NamedMapOf(ms) == DictOf([i \in 1..Len(ms) |-> <<NameKey(i - 1), ms[i]>>])
SuperscriptMapOf(ms) == DictOf([i \in 1..Len(ms) |-> <<SuperscriptKey(i - 1), ms[i]>>])

Shapes == {"list", "intmap", "strmap", "shifted", "named", "superscript", "other"}
Collection(shape, ms) ==
  CASE shape = "list" -> ListOf(ms)
    [] shape = "intmap" -> IntMapOf(ms)
    [] shape = "strmap" -> StrMapOf(ms)
    [] shape = "shifted" -> ShiftedMapOf(ms)
    [] shape = "named" -> NamedMapOf(ms)
    [] shape = "superscript" -> SuperscriptMapOf(ms)
    [] shape = "other" -> OtherObject

\* lists of every kind of metadata, the other shapes with full metadata
\* (the mapping with superscript keys on the matrices of equal rows);
\* a collection has as many entries as the matrix has rows, or one fewer
Entries ==
  {[embeddings |-> emb, chunks |-> Collection(shape, MetaList(kind, M))] :
     <<emb, shape, kind, M>> \in
       {t \in Matrices \X Shapes \X MetaKinds \X (0..MaxRows) :
          /\ t[4] \in {Len(t[1]), Len(t[1]) - 1}
          /\ t[2] # "list" => t[3] = "full"
          /\ t[2] = "superscript" => \A i \in 1..Len(t[1]) : t[1][i] = E1}}

\* what the builder writes for a one-chunk document
PlainEntry == [embeddings |-> <<E1>>, chunks |-> ListOf(MetaList("full", 1))]

\* the stores: every set of plain documents, and the two-document stores
\* whose document "a" is any entry
Stores ==
  {[n \in D |-> PlainEntry] : D \in SUBSET DocNames}
  \cup {[n \in {<<"a">>, <<"b">>} |-> IF n = <<"a">> THEN e ELSE PlainEntry] :
          e \in Entries}

TopKs == 0..MaxTopK

QueryInit ==
  /\ ChunkIdle
  /\ BuildIdle
  /\ LoadIdle
  /\ TrimIdle
  /\ q_pc = "idle"
  /\ store \in Stores
  /\ doc_name = <<>> /\ top_k = 0
  /\ query_vector = <<>> /\ similarities = <<>> /\ top_indices = <<>>
  /\ results = <<>> /\ q_error = NoError

QueryNotFoundInserts(name, k) ==
  /\ q_pc = "idle"
  /\ name \notin DOMAIN store
  /\ q_pc' = "raised"
  /\ doc_name' = name /\ top_k' = k
  /\ q_error' = NotFoundError(DOMAIN store, name)
  /\ store' = [n \in DOMAIN store \cup {name} |->
                 IF n = name THEN [embeddings |-> <<>>, chunks |-> ListOf(<<>>)]
                 ELSE store[n]]
  /\ UNCHANGED <<query_vector, similarities, top_indices, results, c_vars, b_vars, l_vars, t_vars>>

\* an entry of the store is a dict: entry[field] raises KeyError when the
\* field is not one of its keys
HasField(entry, field) == field \in DOMAIN entry

\* rag.py:84  the KeyError of doc_entry["chunks"]: its argument is the field
MissingFieldError ==
  [type |-> "KeyError", doc |-> <<"c", "h", "u", "n", "k", "s">>, available |-> <<>>]

\* rag.py:62-65  the document is not in the store: raise KeyError
QueryNotFound(name, k) ==
  /\ q_pc = "idle"
  /\ name \notin DOMAIN store
  /\ q_pc' = "raised"
  /\ doc_name' = name /\ top_k' = k
  /\ q_error' = NotFoundError(DOMAIN store, name)
  /\ UNCHANGED <<store, query_vector, similarities, top_indices, results, c_vars, b_vars, l_vars, t_vars>>

\* rag.py:67-70  the embedding request for the query fails: its error propagates
QueryEmbedFails(name, k) ==
  /\ q_pc = "idle"
  /\ name \in DOMAIN store
  /\ q_pc' = "raised"
  /\ doc_name' = name /\ top_k' = k
  /\ q_error' = [type |-> "APIError", doc |-> name, available |-> <<>>]
  /\ UNCHANGED <<store, query_vector, similarities, top_indices, results, c_vars, b_vars, l_vars, t_vars>>

\* rag.py:67-74  the query is embedded; the document has no rows: return []
QueryNoRows(name, k, q) ==
  /\ q_pc = "idle"
  /\ name \in DOMAIN store
  /\ Len(store[name].embeddings) = 0
  /\ q_pc' = "returned"
  /\ doc_name' = name /\ top_k' = k /\ query_vector' = q
  /\ results' = <<>>
  /\ UNCHANGED <<store, similarities, top_indices, q_error, c_vars, b_vars, l_vars, t_vars>>

\* rag.py:67-127  the query is embedded, the rows are ranked, the top_k are decoded
QueryRank(name, k, q) ==
  /\ q_pc = "idle"
  /\ name \in DOMAIN store
  /\ Len(store[name].embeddings) > 0
  /\ HasField(store[name], "chunks")
  /\ LET emb == store[name].embeddings
         sims == Similarities(emb, q)
     IN  \E order \in ArgSorts(sims, Len(emb)) :
           /\ ~DecodeRaises(store[name].chunks, TopIndices(order, k))
           /\ similarities' = sims
           /\ top_indices' = TopIndices(order, k)
           /\ results' = BuildResults(store[name].chunks, sims, top_indices')
  /\ q_pc' = "returned"
  /\ doc_name' = name /\ top_k' = k /\ query_vector' = q
  /\ UNCHANGED <<store, q_error, c_vars, b_vars, l_vars, t_vars>>

\* rag.py:67-103  the rows are ranked; decoding a selected row sorts the keys
\* of the chunk mapping and the key function raises ValueError
QueryDecodeFails(name, k, q) ==
  /\ q_pc = "idle"
  /\ name \in DOMAIN store
  /\ Len(store[name].embeddings) > 0
  /\ HasField(store[name], "chunks")
  /\ LET emb == store[name].embeddings
         sims == Similarities(emb, q)
     IN  \E order \in ArgSorts(sims, Len(emb)) :
           /\ DecodeRaises(store[name].chunks, TopIndices(order, k))
           /\ similarities' = sims
           /\ top_indices' = TopIndices(order, k)
  /\ q_pc' = "raised"
  /\ doc_name' = name /\ top_k' = k /\ query_vector' = q
  /\ q_error' = [type |-> "ValueError", doc |-> name, available |-> <<>>]
  /\ UNCHANGED <<store, results, c_vars, b_vars, l_vars, t_vars>>

\* rag.py:67-84  the rows are ranked; the entry has no "chunks" field and
\* doc_entry["chunks"] raises KeyError
QueryNoChunks(name, k, q) ==
  /\ q_pc = "idle"
  /\ name \in DOMAIN store
  /\ Len(store[name].embeddings) > 0
  /\ ~HasField(store[name], "chunks")
  /\ LET emb == store[name].embeddings
         sims == Similarities(emb, q)
     IN  \E order \in ArgSorts(sims, Len(emb)) :
           /\ similarities' = sims
           /\ top_indices' = TopIndices(order, k)
  /\ q_pc' = "raised"
  /\ doc_name' = name /\ top_k' = k /\ query_vector' = q
  /\ q_error' = MissingFieldError
  /\ UNCHANGED <<store, results, c_vars, b_vars, l_vars, t_vars>>

\* the caller takes the result (or handles the error) and may query again
QueryDone ==
  /\ q_pc \in {"returned", "raised"}
  /\ q_pc' = "idle"
  /\ doc_name' = <<>> /\ top_k' = 0
  /\ query_vector' = <<>> /\ similarities' = <<>> /\ top_indices' = <<>>
  /\ results' = <<>> /\ q_error' = NoError
  /\ UNCHANGED <<store, c_vars, b_vars, l_vars, t_vars>>

QueryNotFoundStep == \E name \in DocNames, k \in TopKs : QueryNotFound(name, k)
QueryEmbedFailsStep == \E name \in DocNames, k \in TopKs : QueryEmbedFails(name, k)
QueryNoRowsStep ==
  \E name \in DocNames, k \in TopKs, q \in QueryVecs : QueryNoRows(name, k, q)
QueryRankStep ==
  \E name \in DocNames, k \in TopKs, q \in QueryVecs : QueryRank(name, k, q)
QueryDecodeFailsStep ==
  \E name \in DocNames, k \in TopKs, q \in QueryVecs : QueryDecodeFails(name, k, q)
QueryNoChunksStep ==
  \E name \in DocNames, k \in TopKs, q \in QueryVecs : QueryNoChunks(name, k, q)

QueryNext ==
  \/ QueryNotFoundStep
  \/ QueryEmbedFailsStep
  \/ QueryNoRowsStep
  \/ QueryRankStep
  \/ QueryDecodeFailsStep
  \/ QueryDone

SpecQuery == QueryInit /\ [][QueryNext]_vars

\* ------------------------------------------- the similarity of rag.py:76-79
\* Vectors of several lengths whose norm is a whole number of units, so that
\* the fixed-point norm is the exact one: 5 * k units for k in Scales, that
\* is 0.001, 0.01, 0.1, 0.2 and 1.0.
Scales == {2, 20, 200, 400, 2000}
ExactVecs == {<<3 * k, 4 * k>> : k \in Scales} \cup {<<5 * k, 0>> : k \in Scales}

\* one document of two rows
SimilarityStores ==
  { [name \in {<<"a">>} |->
       [embeddings |-> <<v, w>>, chunks |-> ListOf(MetaList("full", 2))]] :
    v \in ExactVecs, w \in ExactVecs }

SimilarityInit ==
  /\ ChunkIdle
  /\ BuildIdle
  /\ LoadIdle
  /\ TrimIdle
  /\ q_pc = "idle"
  /\ store \in SimilarityStores
  /\ doc_name = <<>> /\ top_k = 0
  /\ query_vector = <<>> /\ similarities = <<>> /\ top_indices = <<>>
  /\ results = <<>> /\ q_error = NoError

SimilarityRankStep == \E q \in ExactVecs : QueryRank(<<"a">>, 2, q)

SimilarityNext ==
  \/ SimilarityRankStep
  \/ QueryDone

SpecSimilarity == SimilarityInit /\ [][SimilarityNext]_vars

\* ================================================ utils/embed.py: main ==
\* embed.py:42-52  the loop of chunk_text from a given start
RECURSIVE ChunkLoop(_, _, _, _, _)
ChunkLoop(ws, st, S, O, acc) ==
  IF ~(st < Len(ws)) THEN acc
  ELSE LET end == WindowEnd(Len(ws), st, S)
           chunk == WindowChunk(ws, st, end)
           acc2 == IF KeepChunk(chunk) THEN Append(acc, chunk) ELSE acc
       IN  IF end >= Len(ws) THEN acc2
           ELSE ChunkLoop(ws, st + StepSize(S, O), S, O, acc2)

\* embed.py:22-52  chunk_text as a function
chunk_text(t, S, O) ==
  LET ws == Split(t) IN IF ws = <<>> THEN <<>> ELSE ChunkLoop(ws, 0, S, O, <<>>)

\* ------------------------------------------------------ trim_non_content
\* A text is a sequence of tokens.  The tokens "a", "b", " ", "\n" and "\f"
\* are the characters themselves; each of the others stands for a phrase
\* that the patterns or the keyword list of trim_non_content mention, in
\* any letter case:
\*   "S" Search   "M" Menu   "F" Footer
\*   "D" Date modified:   "P" Page details   "K" Back to top
\* len() counts the characters of the phrases.
TokenLen(c) ==
  CASE c = "S" -> 6 [] c = "M" -> 4 [] c = "F" -> 6
    [] c = "D" -> 14 [] c = "P" -> 12 [] c = "K" -> 11
    [] OTHER -> 1

RECURSIVE PyLen(_)
PyLen(t) == IF t = <<>> THEN 0 ELSE TokenLen(Head(t)) + PyLen(Tail(t))

\* str.splitlines(): besides "\n", a form feed ends a line
LineBoundaries == {"\n", "\f"}

RECURSIVE SplitLinesFrom(_, _, _)
SplitLinesFrom(s, cur, acc) ==
  IF s = <<>> THEN IF cur = <<>> THEN acc ELSE Append(acc, cur)
  ELSE IF Head(s) \in LineBoundaries THEN SplitLinesFrom(Tail(s), <<>>, Append(acc, cur))
  ELSE SplitLinesFrom(Tail(s), Append(cur, Head(s)), acc)

SplitLines(s) == SplitLinesFrom(s, <<>>, <<>>)

\* "\n".join(lines)
RECURSIVE JoinLines(_)
JoinLines(ls) ==
  IF ls = <<>> THEN <<>>
  ELSE IF Len(ls) = 1 THEN ls[1]
  ELSE ls[1] \o <<"\n">> \o JoinLines(Tail(ls))

\* the lines that ^ and $ see under re.MULTILINE: the pieces between the
\* "\n" characters, so that text = JoinLines(ReLines(text))
RECURSIVE ReLinesFrom(_, _, _)
ReLinesFrom(s, cur, acc) ==
  IF s = <<>> THEN Append(acc, cur)
  ELSE IF Head(s) = "\n" THEN ReLinesFrom(Tail(s), <<>>, Append(acc, cur))
  ELSE ReLinesFrom(Tail(s), Append(cur, Head(s)), acc)

ReLines(s) == ReLinesFrom(s, <<>>, <<>>)

StartsWith(line, c) == line # <<>> /\ line[1] = c

\* the lines that the line patterns match from their first character on:
\* embed.py:74  ^Search[^\n]*\n        embed.py:75  ^Menu\n
\* embed.py:85  \nDate modified:[^\n]*$
\* embed.py:86  \n(?:Footer|End of Document|Contact us)[^\n]*$
LineMatches(pat, line) ==
  CASE pat = 74 -> StartsWith(line, "S")
    [] pat = 75 -> line = <<"M">>
    [] pat = 85 -> StartsWith(line, "D")
    [] pat = 86 -> StartsWith(line, "F")
    [] OTHER -> FALSE

\* re.sub of a pattern ^...\n: every matching line that a "\n" follows is
\* removed with that "\n"
DropHeadLines(ls, pat) ==
  IF ls = <<>> THEN ls
  ELSE SelectSeq(SubSeq(ls, 1, Len(ls) - 1), LAMBDA l : ~LineMatches(pat, l))
         \o <<ls[Len(ls)]>>

\* re.sub of a pattern \n...[^\n]*$: every matching line after the first is
\* removed with the "\n" before it
DropTailLines(ls, pat) ==
  IF ls = <<>> THEN ls
  ELSE <<ls[1]>> \o SelectSeq(Tail(ls), LAMBDA l : ~LineMatches(pat, l))

\* embed.py:90  the characters of [\w \-.,/:\(\)@]: every token but the
\* line feed and the form feed
InNameClass(c) == c \notin {"\n", "\f"}

\* embed.py:90  (?:\n[\w \-.,/:\(\)@]+){6,}
MinNameLines == 6

\* the last position of the run of name characters that starts at p
RECURSIVE NameRunEnd(_, _)
NameRunEnd(t, p) ==
  IF p <= Len(t) /\ InNameClass(t[p]) THEN NameRunEnd(t, p + 1) ELSE p - 1

\* the end positions of the greedy repetitions of \n[...]+ from position i
RECURSIVE RepEnds(_, _)
RepEnds(t, i) ==
  IF i + 1 <= Len(t) /\ t[i] = "\n" /\ InNameClass(t[i + 1])
  THEN LET e == NameRunEnd(t, i + 1) IN <<e>> \o RepEnds(t, e + 1)
  ELSE <<>>

\* the last position of the run of whitespace that starts at p
RECURSIVE SpaceRunEnd(_, _)
SpaceRunEnd(t, p) ==
  IF p <= Len(t) /\ t[p] \in Whitespace THEN SpaceRunEnd(t, p + 1) ELSE p - 1

\* [\s\n]*$ after position e: the whitespace up to the end of the text, or
\* else up to the last line feed of the run (given back for $); -1 if the run
\* neither ends the text nor holds a line feed
TailEnd(t, e) ==
  LET w == SpaceRunEnd(t, e + 1)
      feeds == {j \in (e + 1)..w : t[j] = "\n"}
  IN  IF w = Len(t) THEN w
      ELSE IF feeds # {} THEN (CHOOSE j \in feeds : \A k \in feeds : k <= j) - 1
      ELSE -1

\* the end of the match of pattern 90 that starts at i, -1 if there is none:
\* the most repetitions, at least six, after which [\s\n]*$ matches
NameLinesEnd(t, i) ==
  LET ends == RepEnds(t, i)
      ks == {k \in MinNameLines..Len(ends) : TailEnd(t, ends[k]) # -1}
  IN  IF ks = {} THEN -1
      ELSE TailEnd(t, ends[CHOOSE k \in ks : \A j \in ks : j <= k])

\* re.sub of pattern 90: the leftmost match is removed, then the search goes
\* on after it
RECURSIVE SubNameLinesFrom(_, _)
SubNameLinesFrom(t, i) ==
  IF i > Len(t) THEN t
  ELSE LET e == NameLinesEnd(t, i)
       IN  IF e = -1 THEN SubNameLinesFrom(t, i + 1)
           ELSE SubSeq(t, 1, i - 1) \o SubNameLinesFrom(SubSeq(t, e + 1, Len(t)), 1)

SubNameLines(t) == SubNameLinesFrom(t, 1)

\* embed.py:92  (?=\n\S|\Z) after position j
SectionStops(t, j) ==
  \/ j = Len(t)
  \/ j + 2 <= Len(t) /\ t[j + 1] = "\n" /\ t[j + 2] \notin Whitespace

\* embed.py:92  \nPage details[\s\S]+?(?=\n\S|\Z): from each "\nPage details"
\* the fewest characters, at least one, up to a line feed that a
\* non-whitespace character follows, or up to the end of the text
RECURSIVE SubPageDetailsFrom(_, _)
SubPageDetailsFrom(t, i) ==
  IF i + 2 > Len(t) THEN t
  ELSE IF t[i] = "\n" /\ t[i + 1] = "P"
  THEN LET j == CHOOSE j \in (i + 2)..Len(t) :
                  /\ SectionStops(t, j)
                  /\ \A k \in (i + 2)..(j - 1) : ~SectionStops(t, k)
       IN  SubSeq(t, 1, i - 1) \o SubPageDetailsFrom(SubSeq(t, j + 1, Len(t)), 1)
  ELSE SubPageDetailsFrom(t, i + 1)

SubPageDetails(t) == SubPageDetailsFrom(t, 1)

\* embed.py:68-80, 83-96  the pattern lists; a pattern is named by its line
head_patterns == <<69, 70, 71, 72, 73, 74, 75, 76, 77, 78, 79>>
tail_patterns == <<84, 85, 86, 87, 88, 89, 90, 91, 92, 93, 94, 95>>

\* embed.py:102,110,117  re.sub(pat, '', cleaned, IGNORECASE|MULTILINE).  The
\* patterns not listed need a phrase that no text over the tokens holds
\* ("Canada.ca", "Skip to", "Main", "From:", "For media:", ...): they match
\* nowhere and leave the text as it is.
ReSub(pat, t) ==
  CASE pat \in {74, 75} -> JoinLines(DropHeadLines(ReLines(t), pat))
    [] pat \in {85, 86} -> JoinLines(DropTailLines(ReLines(t), pat))
    [] pat = 90 -> SubNameLines(t)
    [] pat = 92 -> SubPageDetails(t)
    [] OTHER -> t

\* embed.py:103,111,118  the threshold of "actually shortened"
TrimThreshold == 8

AcceptedIfShorter(cleaned_new, cleaned_) == PyLen(cleaned_new) < PyLen(cleaned_)

\* embed.py:103,111,118  len(cleaned_new) < len(cleaned) - 8
Accepted(cleaned_new, cleaned_) == PyLen(cleaned_new) < PyLen(cleaned_) - TrimThreshold

\* embed.py:122-134  the tokens that hold one of NON_CONTENT_KEYWORDS
KeywordTokens == {"D", "P", "K"}

\* embed.py:138,141  any(k.lower() in line.lower() for k in NON_CONTENT_KEYWORDS)
IsNonContent(line) == Range(line) \cap KeywordTokens # {}

\* embed.py:138-139  drop the leading non-content lines
RECURSIVE DropLeading(_)
DropLeading(ls) ==
  IF ls # <<>> /\ IsNonContent(ls[1]) THEN DropLeading(Tail(ls)) ELSE ls

\* embed.py:141-142  drop the trailing non-content lines
RECURSIVE DropTrailing(_)
DropTrailing(ls) ==
  IF ls # <<>> /\ IsNonContent(ls[Len(ls)])
  THEN DropTrailing(SubSeq(ls, 1, Len(ls) - 1)) ELSE ls

\* embed.py:101-105  the head loop: the first accepted pattern ends it
RECURSIVE HeadPass(_, _)
HeadPass(cleaned_, i) ==
  IF i > Len(head_patterns) THEN cleaned_
  ELSE LET cleaned_new == ReSub(head_patterns[i], cleaned_)
       IN  IF Accepted(cleaned_new, cleaned_) THEN cleaned_new
           ELSE HeadPass(cleaned_, i + 1)

\* embed.py:109-113, 116-119  one pass over the tail patterns
RECURSIVE TailPass(_, _)
TailPass(cleaned_, i) ==
  IF i > Len(tail_patterns) THEN cleaned_
  ELSE LET cleaned_new == ReSub(tail_patterns[i], cleaned_)
       IN  TailPass(IF Accepted(cleaned_new, cleaned_) THEN cleaned_new ELSE cleaned_, i + 1)

\* embed.py:136-144  the keyword scan of the lines and the final strip
ScanLines(cleaned_) ==
  Strip(JoinLines(DropTrailing(DropLeading(SplitLines(cleaned_)))))

\* embed.py:98-144  trim_non_content as a function
trim_non_content(t) ==
  LET afterHead == HeadPass(Strip(t), 1)
      afterTail == TailPass(afterHead, 1)
      trimmed_ == afterTail # afterHead
  IN  ScanLines(IF trimmed_ THEN TailPass(afterTail, 1) ELSE afterTail)

\* ------------------------------------- trim_non_content, statement by statement
\* The texts given to trim_non_content: all texts of up to MaxTrimLines
\* lines taken from TrimLines, and some longer ones.
MaxTrimLines == 3

TrimLines ==
  { <<>>, <<"a">>, <<"M">>, <<"S", "a", "a">>, <<"S", "a">>, <<"D">>, <<"P">>, <<"K">>,
    <<"F">>, <<"a", "\f", "b">> }

Repeat(line, n) == [i \in 1..n |-> line]

LongTexts ==
  { JoinLines(Repeat(<<"a">>, 6)),
    JoinLines(Repeat(<<"a">>, 7)),
    JoinLines(Repeat(<<"a">>, 4) \o <<<<"P">>, <<>>>> \o Repeat(<<"a">>, 3)),
    JoinLines(Repeat(<<"a">>, 7) \o <<<<>>, <<"b">>>>),
    JoinLines(<<<<"b">>>> \o Repeat(<<"a">>, 6) \o <<<<"a", "\f", "b">>>>),
    JoinLines(<<<<"K">>, <<>>, <<"K">>, <<"a">>>>),
    JoinLines(<<<<"a">>, <<"K">>, <<>>, <<"K">>>>),
    JoinLines(<<<<"S", "a", "a">>, <<"M">>, <<"M">>, <<"a">>, <<"F">>>>),
    JoinLines(<<<<"a">>, <<"F">>, <<"D">>, <<"P">>, <<"a">>>>) }

TrimTexts ==
  {JoinLines(ls) : ls \in UNION {[1..k -> TrimLines] : k \in 0..MaxTrimLines}}
  \cup LongTexts

TrimInit ==
  /\ ChunkIdle
  /\ QueryIdle
  /\ BuildIdle
  /\ LoadIdle
  /\ trim_pc = "start"
  /\ trim_text \in TrimTexts
  /\ cleaned = <<>> /\ pat_index = 0 /\ tail_pass = 0 /\ trimmed = FALSE
  /\ trim_log = <<>> /\ trim_result = <<>>

\* what one execution of a loop body did
Substitution(phase, pass, pat, before, result) ==
  [phase |-> phase, pass |-> pass, pat |-> pat, before |-> before, result |-> result,
   accepted |-> Accepted(result, before)]

\* embed.py:98  cleaned = text.strip()
TrimEnter ==
  /\ trim_pc = "start"
  /\ cleaned' = Strip(trim_text)
  /\ trim_pc' = "head"
  /\ pat_index' = 1
  /\ UNCHANGED <<trim_text, tail_pass, trimmed, trim_log, trim_result,
                 c_vars, q_vars, b_vars, l_vars>>

HeadLoopEndsAtLast(accepted, i) == i = Len(head_patterns)

\* embed.py:101,105  the loop ends after the last pattern, or at the break
HeadLoopEnds(accepted, i) == accepted \/ i = Len(head_patterns)

\* embed.py:101-105  one execution of the body of the head loop
TrimHead ==
  /\ trim_pc = "head"
  /\ LET cleaned_new == ReSub(head_patterns[pat_index], cleaned)
         accepted == Accepted(cleaned_new, cleaned)
     IN  /\ cleaned' = IF accepted THEN cleaned_new ELSE cleaned
         /\ trim_log' = Append(trim_log,
              Substitution("head", 1, head_patterns[pat_index], cleaned, cleaned_new))
         /\ IF HeadLoopEnds(accepted, pat_index)
            THEN trim_pc' = "tail" /\ pat_index' = 1 /\ tail_pass' = 1
            ELSE trim_pc' = "head" /\ pat_index' = pat_index + 1 /\ tail_pass' = tail_pass
  /\ UNCHANGED <<trim_text, trimmed, trim_result, c_vars, q_vars, b_vars, l_vars>>

AnotherPassWhenever(pass, trimmed_) == pass = 1

\* embed.py:115  if trimmed: the tail loop is run a second time
AnotherPass(pass, trimmed_) == pass = 1 /\ trimmed_

\* embed.py:109-113, 116-119  one execution of the body of a tail loop
TrimTail ==
  /\ trim_pc = "tail"
  /\ LET cleaned_new == ReSub(tail_patterns[pat_index], cleaned)
         accepted == Accepted(cleaned_new, cleaned)
         trimmed_ == trimmed \/ (accepted /\ tail_pass = 1)
     IN  /\ cleaned' = IF accepted THEN cleaned_new ELSE cleaned
         /\ trimmed' = trimmed_
         /\ trim_log' = Append(trim_log,
              Substitution("tail", tail_pass, tail_patterns[pat_index], cleaned, cleaned_new))
         /\ IF pat_index < Len(tail_patterns)
            THEN trim_pc' = "tail" /\ pat_index' = pat_index + 1 /\ tail_pass' = tail_pass
            ELSE IF AnotherPass(tail_pass, trimmed_)
            THEN trim_pc' = "tail" /\ pat_index' = 1 /\ tail_pass' = tail_pass + 1
            ELSE trim_pc' = "scan" /\ pat_index' = pat_index /\ tail_pass' = tail_pass
  /\ UNCHANGED <<trim_text, trim_result, c_vars, q_vars, b_vars, l_vars>>

\* embed.py:136-144  the keyword scan, the join and the final strip
TrimScan ==
  /\ trim_pc = "scan"
  /\ trim_result' = ScanLines(cleaned)
  /\ trim_pc' = "returned"
  /\ UNCHANGED <<trim_text, cleaned, pat_index, tail_pass, trimmed, trim_log,
                 c_vars, q_vars, b_vars, l_vars>>

TrimNext ==
  \/ TrimEnter
  \/ TrimHead
  \/ TrimTail
  \/ TrimScan

SpecTrim == TrimInit /\ [][TrimNext]_vars

\* the embedding the provider returns for a text: a fixed function of the
\* text (embed.py:176-181 relies on one embedding per input, in input order)
\* The endpoint answers in double precision, so a coordinate need not be
\* a 32-bit float: the first one here has 25 significant bits.
ProviderEmbedding(t) ==
  <<16777216 + Len(t), 1000 * Cardinality({i \in 1..Len(t) : t[i] = "b"})>>

embed_chunk_batchReversed(batch) ==
  [i \in 1..Len(batch) |-> ProviderEmbedding(batch[Len(batch) + 1 - i].text)]

\* embed.py:175-181  embed_chunk_batch: one embedding per record, in order
embed_chunk_batch(batch) == [i \in 1..Len(batch) |-> ProviderEmbedding(batch[i].text)]

RecordsOfOneBased(name, cs) ==
  [i \in 1..Len(cs) |-> [doc_name |-> name, chunk_index |-> i, text |-> cs[i]]]

\* embed.py:276-283  the records of one document
RecordsOf(name, cs) ==
  [i \in 1..Len(cs) |-> [doc_name |-> name, chunk_index |-> i - 1, text |-> cs[i]]]

RECURSIVE ChunkRecordsNoSkip(_, _, _, _)
ChunkRecordsNoSkip(names, docs, S, O) ==
  IF names = <<>> THEN <<>>
  ELSE LET cs == chunk_text(docs[Head(names)], S, O)
       IN  (IF cs = <<>>
            THEN <<[doc_name |-> Head(names), chunk_index |-> 0, text |-> <<>>]>>
            ELSE RecordsOf(Head(names), cs))
           \o ChunkRecordsNoSkip(Tail(names), docs, S, O)

\* embed.py:271-283  chunk every document in order, skipping those without chunks
RECURSIVE ChunkRecords(_, _, _, _)
ChunkRecords(names, docs, S, O) ==
  IF names = <<>> THEN <<>>
  ELSE LET cs == chunk_text(docs[Head(names)], S, O)
       IN  (IF cs = <<>> THEN <<>> ELSE RecordsOf(Head(names), cs))
           \o ChunkRecords(Tail(names), docs, S, O)

\* ------------------------------------------------------ 32-bit floats
\* np.float32 keeps 24 significant bits and rounds to nearest, ties to even
MantissaBits == 24

RECURSIVE BitLen(_)
BitLen(x) == IF x = 0 THEN 0 ELSE 1 + BitLen(x \div 2)

RECURSIVE Pow2(_)
Pow2(n) == IF n = 0 THEN 1 ELSE 2 * Pow2(n - 1)

RoundToBits(x, bits) ==
  LET a == IF x < 0 THEN 0 - x ELSE x
      unit == IF BitLen(a) > bits THEN Pow2(BitLen(a) - bits) ELSE 1
      q == a \div unit
      r == a % unit
      up == 2 * r > unit \/ (2 * r = unit /\ q % 2 = 1)
      rounded == unit * (IF up THEN q + 1 ELSE q)
  IN  IF x < 0 THEN 0 - rounded ELSE rounded

Float16(x) == RoundToBits(x, 11)

Float32(x) == RoundToBits(x, MantissaBits)

\* np.array(rows, dtype=np.float32)
Float32Matrix(m) == [i \in 1..Len(m) |-> [j \in 1..Len(m[i]) |-> Float32(m[i][j])]]

\* embed.py:306-322  regroup the enriched records by document
RecordsFor(recs, name) == SelectSeq(recs, LAMBDA r : r.doc_name = name)

OrganizeStore(recs) ==
  [name \in {recs[i].doc_name : i \in 1..Len(recs)} |->
     LET mine == RecordsFor(recs, name)
     IN  [embeddings |-> Float32Matrix([i \in 1..Len(mine) |-> mine[i].embedding]),
          chunks |-> ListOf([i \in 1..Len(mine) |->
                      [kind |-> "dict", fields |-> {"chunk_index", "text"},
                       chunk_index |-> mine[i].chunk_index, text |-> mine[i].text]])]]

\* the files of the input directory
DocTexts ==
  { <<>>, <<" ">>, <<"a">>, <<"a", " ", "b">>, <<"a", " ", "b", " ", "a">>,
    <<"K">>, <<"K", "\n", "a", " ", "b">>, <<"a", "\n", "K", " ", "b">> }

\* (chunk_size, chunk_overlap) given on the command line
BuildSizes == {<<1, 0>>, <<2, 0>>, <<2, 1>>}

NothingToEmbedNever(records) == FALSE

\* embed.py:287  if not chunk_records
NothingToEmbed(records) == records = <<>>

BuildInit ==
  /\ ChunkIdle /\ QueryIdle /\ TrimIdle
  /\ load_pc = "ready" /\ file_reads = 0 /\ loaded_store = <<>> /\ load_error = "none"
  /\ b_pc = "start"
  /\ \E D \in SUBSET DocNames : documents \in [D -> DocTexts]
  /\ no_trim_content \in BOOLEAN
  /\ build_sizes \in BuildSizes
  /\ batch_size \in 1..MaxBatch
  /\ chunk_records = <<>> /\ enriched_records = <<>>
  /\ batch_start = 0 /\ requests = <<>> /\ output_file = NoFile

\* embed.py:264-289  trim, chunk, and stop when there is nothing to embed
BuildPrepare ==
  /\ b_pc = "start"
  /\ LET docs == IF no_trim_content THEN documents
                 ELSE [n \in DOMAIN documents |-> trim_non_content(documents[n])]
     IN  /\ documents' = docs
         /\ chunk_records' =
              ChunkRecords(SortedKeys(DOMAIN docs), docs, build_sizes[1], build_sizes[2])
  /\ b_pc' = IF NothingToEmbed(chunk_records') THEN "done" ELSE "embedding"
  /\ UNCHANGED <<no_trim_content, build_sizes, batch_size, enriched_records, batch_start,
                 requests, output_file, c_vars, q_vars, l_vars, t_vars>>

\* embed.py:294-296  the next batch is sent to the embedding endpoint
EmbedRequest ==
  /\ b_pc = "embedding"
  /\ batch_start < Len(chunk_records)
  /\ requests' = Append(requests,
                   PySlice(chunk_records, batch_start, batch_start + batch_size))
  /\ b_pc' = "waiting"
  /\ UNCHANGED <<documents, no_trim_content, build_sizes, batch_size, chunk_records,
                 enriched_records, batch_start, output_file, c_vars, q_vars, l_vars, t_vars>>

\* embed.py:296-300  the embeddings arrive and are attached to the batch
EmbedResponse ==
  /\ b_pc = "waiting"
  /\ LET batch == requests[Len(requests)]
         embeddings == embed_chunk_batch(batch)
     IN  enriched_records' = enriched_records \o
           [i \in 1..Len(batch) |->
              [doc_name |-> batch[i].doc_name, chunk_index |-> batch[i].chunk_index,
               text |-> batch[i].text, embedding |-> embeddings[i]]]
  /\ batch_start' = batch_start + batch_size
  /\ b_pc' = "embedding"
  /\ UNCHANGED <<documents, no_trim_content, build_sizes, batch_size, chunk_records,
                 requests, output_file, c_vars, q_vars, l_vars, t_vars>>

EmbedFailureRetried ==
  /\ b_pc = "waiting"
  /\ b_pc' = "embedding"
  /\ UNCHANGED <<documents, no_trim_content, build_sizes, batch_size, chunk_records,
                 enriched_records, batch_start, requests, output_file,
                 c_vars, q_vars, l_vars, t_vars>>

\* embed.py:176-179  the request fails: the exception ends the build
EmbedFailure ==
  /\ b_pc = "waiting"
  /\ b_pc' = "failed"
  /\ UNCHANGED <<documents, no_trim_content, build_sizes, batch_size, chunk_records,
                 enriched_records, batch_start, requests, output_file,
                 c_vars, q_vars, l_vars, t_vars>>

PersistEvenIfFailed ==
  /\ \/ b_pc = "embedding" /\ ~(batch_start < Len(chunk_records))
     \/ b_pc = "failed"
  /\ output_file' = [exists |-> TRUE, content |-> OrganizeStore(enriched_records)]
  /\ b_pc' = "done"
  /\ UNCHANGED <<documents, no_trim_content, build_sizes, batch_size, chunk_records,
                 enriched_records, batch_start, requests, c_vars, q_vars, l_vars, t_vars>>

\* embed.py:304-326  all batches are embedded: organize and persist
Persist ==
  /\ b_pc = "embedding"
  /\ ~(batch_start < Len(chunk_records))
  /\ output_file' = [exists |-> TRUE, content |-> OrganizeStore(enriched_records)]
  /\ b_pc' = "done"
  /\ UNCHANGED <<documents, no_trim_content, build_sizes, batch_size, chunk_records,
                 enriched_records, batch_start, requests, c_vars, q_vars, l_vars, t_vars>>

\* ------------------------------------------- rag.py: load_vector_store
PathExistsAlways(file) == TRUE

\* rag.py:26  path.exists()
PathExists(file) == file.exists

LoadCoerceHalf(m) == [i \in 1..Len(m) |-> [j \in 1..Len(m[i]) |-> Float16(m[i][j])]]

\* rag.py:34  np.array(entry["embeddings"], dtype=np.float32)
LoadCoerce(m) == Float32Matrix(m)

\* rag.py:29-36  pickle.load gives back the object that was dumped; the
\* embeddings of every entry are then converted
LoadedStore(content) ==
  [name \in DOMAIN content |-> [content[name] EXCEPT !.embeddings = LoadCoerce(@)]]

\* rag.py:26-27  nothing at the path: raise before the file is opened
LoadNotFound ==
  /\ load_pc = "ready"
  /\ b_pc # "start"
  /\ ~PathExists(output_file)
  /\ load_pc' = "raised"
  /\ load_error' = "FileNotFoundError"
  /\ UNCHANGED <<file_reads, loaded_store, c_vars, q_vars, b_vars, t_vars>>

EntryLoadsValidated(entry) ==
  /\ HasField(entry, "embeddings")
  /\ HasField(entry, "chunks")
  /\ entry.chunks.kind \in {"list", "dict"}

\* rag.py:33-34  entry["embeddings"] is read and converted; nothing else of
\* the entry is looked at
EntryLoads(entry) == HasField(entry, "embeddings")

\* rag.py:29-36  open, deserialize, convert, return
LoadFound ==
  /\ load_pc = "ready"
  /\ b_pc # "start"
  /\ PathExists(output_file)
  /\ \A name \in DOMAIN output_file.content : EntryLoads(output_file.content[name])
  /\ file_reads' = file_reads + 1
  /\ loaded_store' = LoadedStore(output_file.content)
  /\ load_pc' = "loaded"
  /\ UNCHANGED <<load_error, c_vars, q_vars, b_vars, t_vars>>

\* rag.py:29-34  open, deserialize; an entry has no "embeddings" field and
\* entry["embeddings"] raises KeyError
LoadKeyError ==
  /\ load_pc = "ready"
  /\ b_pc # "start"
  /\ PathExists(output_file)
  /\ \E name \in DOMAIN output_file.content : ~EntryLoads(output_file.content[name])
  /\ file_reads' = file_reads + 1
  /\ load_pc' = "raised"
  /\ load_error' = "KeyError"
  /\ UNCHANGED <<loaded_store, c_vars, q_vars, b_vars, t_vars>>

BuildNext ==
  \/ BuildPrepare
  \/ EmbedRequest
  \/ EmbedResponse
  \/ EmbedFailure
  \/ Persist
  \/ LoadNotFound
  \/ LoadFound

SpecBuild == BuildInit /\ [][BuildNext]_vars

\* ------------------------------------ load_vector_store, then query_document
\* The files a loader can be given: none, or a pickled dict of entries whose
\* fields may be missing and whose chunks may be of any shape.
LoadMatrices == {<<>>, <<E1>>, <<E1, E1>>}
LoadCollections ==
  {OtherObject, ListOf(<<>>), ListOf(MetaList("full", 1)), ListOf(MetaList("str", 2)),
   StrMapOf(MetaList("full", 2)), SuperscriptMapOf(MetaList("full", 1))}
LoadEntries ==
  {[embeddings |-> emb, chunks |-> c] : emb \in LoadMatrices, c \in LoadCollections}
  \cup {[embeddings |-> emb] : emb \in LoadMatrices}
  \cup {[chunks |-> c] : c \in LoadCollections}
LoadFiles ==
  {NoFile}
  \cup {[exists |-> TRUE, content |-> [n \in D |-> IF n = <<"a">> THEN e ELSE PlainEntry]] :
          e \in LoadEntries, D \in {{<<"a">>}, {<<"a">>, <<"b">>}}}

LoadInit ==
  /\ ChunkIdle
  /\ QueryIdle
  /\ TrimIdle
  /\ LoadIdleReady
  /\ b_pc = "off" /\ documents = <<>> /\ no_trim_content = FALSE
  /\ build_sizes = <<0, 0>>
  /\ batch_size = 0 /\ chunk_records = <<>> /\ enriched_records = <<>>
  /\ batch_start = 0 /\ requests = <<>>
  /\ output_file \in LoadFiles

\* the caller queries the store that the loader returned
UseLoaded ==
  /\ load_pc = "loaded"
  /\ q_pc = "off"
  /\ store' = loaded_store
  /\ q_pc' = "idle"
  /\ UNCHANGED <<doc_name, top_k, query_vector, similarities, top_indices, results,
                 q_error, c_vars, b_vars, l_vars, t_vars>>

LoadNext ==
  \/ LoadNotFound
  \/ LoadFound
  \/ LoadKeyError
  \/ UseLoaded
  \/ QueryNotFoundStep
  \/ QueryEmbedFailsStep
  \/ QueryNoRowsStep
  \/ QueryRankStep
  \/ QueryDecodeFailsStep
  \/ QueryNoChunksStep
  \/ QueryDone

SpecLoad == LoadInit /\ [][LoadNext]_vars

\* ---------------------------------------------------- chunk_text: claims
\* the words of the returned chunks, overlap removed: all of the first chunk,
\* then every later chunk without the n words it repeats from its predecessor
RECURSIVE Reconstruct(_, _)
Reconstruct(cs, n) ==
  IF cs = <<>> THEN <<>>
  ELSE Reconstruct(SubSeq(cs, 1, Len(cs) - 1), n)
       \o (IF Len(cs) = 1 THEN Split(cs[1])
           ELSE PySlice(Split(cs[Len(cs)]), Max(0, n), Len(Split(cs[Len(cs)]))))

ExpectedChunkCount(W, S, O) == IF W > S THEN CeilDiv(W - S, S - O) + 1 ELSE 1

ChunkReturned == c_pc = "done"

\* C1 as stated: for W >= 1, S >= 1 and every O < S, chunk_text returns
\* ceil((W-S)/(S-O))+1 chunks when W > S and 1 chunk when W <= S.
C1_CountAnyOverlap ==
  (ChunkReturned /\ Len(words) >= 1 /\ chunk_size >= 1 /\ chunk_overlap < chunk_size)
    => Len(chunks) = ExpectedChunkCount(Len(words), chunk_size, chunk_overlap)

\* C1 amended: the count formula holds for 0 <= O < S (a negative overlap
\* makes the step larger than the window, and the loop can end at the
\* while test before the last window has reached the end of the text).
C1_Count ==
  (ChunkReturned /\ Len(words) >= 1 /\ chunk_size >= 1
     /\ 0 <= chunk_overlap /\ chunk_overlap < chunk_size)
    => Len(chunks) = ExpectedChunkCount(Len(words), chunk_size, chunk_overlap)

C1_Witness ==
  /\ ChunkReturned /\ chunk_overlap >= 1 /\ chunk_overlap < chunk_size
  /\ Len(words) > chunk_size /\ Len(chunks) >= 3

\* C2 as stated: for W >= 1, S >= 1 and every O < S, each chunk has at most
\* S words and the chunks with the overlap removed concatenate to a prefix
\* of the word sequence.
C2_PrefixAnyOverlap ==
  (ChunkReturned /\ Len(words) >= 1 /\ chunk_size >= 1 /\ chunk_overlap < chunk_size)
    => /\ \A i \in 1..Len(chunks) : Len(Split(chunks[i])) <= chunk_size
       /\ IsPrefix(Reconstruct(chunks, chunk_overlap), words)

\* C2 amended: for 0 <= O < S each chunk has at most S words and the chunks
\* with the O repeated words removed concatenate to a prefix of the words.
C2_Prefix ==
  (ChunkReturned /\ Len(words) >= 1 /\ chunk_size >= 1
     /\ 0 <= chunk_overlap /\ chunk_overlap < chunk_size)
    => /\ \A i \in 1..Len(chunks) : Len(Split(chunks[i])) <= chunk_size
       /\ IsPrefix(Reconstruct(chunks, chunk_overlap), words)

C2_Witness ==
  /\ ChunkReturned /\ chunk_overlap >= 1 /\ chunk_overlap < chunk_size
  /\ Len(chunks) >= 2
  /\ Reconstruct(chunks, chunk_overlap) = words
  /\ \E i, j \in 1..Len(words) : words[i] # words[j]

\* C3: chunk_text terminates for all integer chunk_size and chunk_overlap:
\* the loop body has run at most W times, and each execution that continues
\* moved start forward by at least 1.
C3_Terminates ==
  /\ c_iters <= Len(words)
  /\ c_pc = "loop" => start >= c_iters

C3_Witness ==
  /\ ChunkReturned /\ chunk_overlap >= chunk_size /\ c_iters = Len(words)
  /\ Len(words) >= 3

\* C4: every returned chunk is a non-empty text, and a text without words
\* (empty or whitespace only) gives the empty list.
C4_NonEmptyChunks ==
  /\ \A i \in 1..Len(chunks) : chunks[i] # <<>>
  /\ (ChunkReturned /\ Split(text) = <<>>) => chunks = <<>>

C4_Witness ==
  ChunkReturned /\ text # <<>> /\ Split(text) = <<>> /\ chunks = <<>> /\ c_iters = 0

\* the step written out from the arguments
ClaimedStep == Max(1, chunk_size - chunk_overlap)

\* the 0-based start of the k-th window (k = 0, 1, ...)
StartOf(k) == k * ClaimedStep

\* the words of the window that starts at st
WindowWords(st) == PySlice(words, st, Min(Len(words), st + chunk_size))

\* C22 as stated: a window is produced for every start index 0, step,
\* 2*step, ... below the word count W, so the loop body runs ceil(W / step)
\* times and (for chunk_size >= 1) the k-th chunk is the window at k * step.
C22_WindowAtEveryStart ==
  (ChunkReturned /\ Len(words) >= 1) =>
    /\ c_iters = CeilDiv(Len(words), ClaimedStep)
    /\ chunk_size >= 1 =>
         /\ Len(chunks) = c_iters
         /\ \A k \in 0..(c_iters - 1) : Split(chunks[k + 1]) = WindowWords(StartOf(k))

\* the start indices that get a window: those below W such that no earlier
\* window has reached the end of the words
ProducedStarts ==
  {k \in 0..Len(words) :
     /\ StartOf(k) < Len(words)
     /\ \A j \in 0..(k - 1) : StartOf(j) + chunk_size < Len(words)}

\* C22 amended: windows are produced for the start indices 0, step,
\* 2*step, ... below W up to and including the first one whose window
\* reaches the end of the words, and for no later start index.
C22_WindowUntilEndReached ==
  (ChunkReturned /\ Len(words) >= 1) =>
    /\ c_iters = Cardinality(ProducedStarts)
    /\ chunk_size >= 1 =>
         /\ Len(chunks) = c_iters
         /\ \A k \in 0..(c_iters - 1) : Split(chunks[k + 1]) = WindowWords(StartOf(k))

\* the last window reached the end and the next start index is still
\* below the word count
C22_Witness ==
  /\ ChunkReturned
  /\ chunk_overlap >= 1 /\ chunk_overlap < chunk_size
  /\ c_iters >= 2
  /\ Len(chunks) = c_iters
  /\ StartOf(c_iters) < Len(words)

\* C23: for 0 <= O < S, chunk i holds the words at positions
\* (i-1)(S-O) .. (i-1)(S-O)+S-1 (cut at the end of the text), so the last
\* O words of a chunk are the first O words of the next one, and every
\* chunk after the first ends beyond the end of its predecessor.
C23_OverlapAndProgress ==
  (ChunkReturned /\ 0 <= chunk_overlap /\ chunk_overlap < chunk_size) =>
    /\ \A i \in 1..Len(chunks) :
         Split(chunks[i]) = WindowWords((i - 1) * (chunk_size - chunk_overlap))
    /\ \A i \in 1..(Len(chunks) - 1) :
         LET this == Split(chunks[i])
             next == Split(chunks[i + 1])
         IN  /\ Len(this) = chunk_size
             /\ Len(next) > chunk_overlap
             /\ SubSeq(this, Len(this) - chunk_overlap + 1, Len(this))
                  = SubSeq(next, 1, chunk_overlap)
             /\ (i * (chunk_size - chunk_overlap)) + Len(next)
                  > ((i - 1) * (chunk_size - chunk_overlap)) + Len(this)

\* three chunks of two words with an overlap of one word
C23_Witness ==
  /\ ChunkReturned
  /\ chunk_overlap = 1 /\ chunk_size = 2
  /\ Len(chunks) = 3
  /\ Split(chunks[2])[2] = Split(chunks[3])[1]
  /\ \E i, j \in 1..Len(words) : words[i] # words[j]

\* ------------------------------------------------ trim_non_content: claims
TrimReturned == trim_pc = "returned"

HeadLog == SelectSeq(trim_log, LAMBDA e : e.phase = "head")
TailLog(pass) == SelectSeq(trim_log, LAMBDA e : e.phase = "tail" /\ e.pass = pass)
PatsOf(log) == [i \in 1..Len(log) |-> log[i].pat]

\* C21 as stated: trim_non_content returns; when no pattern was accepted
\* and neither the first nor the last line holds a boilerplate phrase, what
\* it returns is the input text without its surrounding whitespace.
C21_NoOpWhenNothingMatches ==
  LET lines == SplitLines(Strip(trim_text))
  IN  (/\ TrimReturned
       /\ \A i \in 1..Len(trim_log) : ~trim_log[i].accepted
       /\ lines # <<>> => (~IsNonContent(lines[1]) /\ ~IsNonContent(lines[Len(lines)])))
        => trim_result = Strip(trim_text)

\* every substitution of the log was made on the text current at the time,
\* and its result was kept exactly when it is more than 8 characters shorter
ThresholdObserved ==
  /\ \A i \in 1..Len(trim_log) :
       trim_log[i].accepted
         = (PyLen(trim_log[i].before) - PyLen(trim_log[i].result) > TrimThreshold)
  /\ trim_log # <<>> => trim_log[1].before = Strip(trim_text)
  /\ \A i \in 1..(Len(trim_log) - 1) :
       trim_log[i + 1].before
         = IF PyLen(trim_log[i].before) - PyLen(trim_log[i].result) > TrimThreshold
           THEN trim_log[i].result ELSE trim_log[i].before

\* C24 as stated: once the loops are over, every head pattern and every tail
\* pattern has been applied, in the order of the lists, and a result was
\* kept only if more than 8 characters shorter.
C24_EveryRuleApplied ==
  trim_pc \in {"scan", "returned"} =>
    /\ PatsOf(HeadLog) = head_patterns
    /\ PatsOf(TailLog(1)) = tail_patterns
    /\ ThresholdObserved

\* the head patterns up to and including the first one accepted
FirstAccepted(log) ==
  IF \E i \in 1..Len(log) : log[i].accepted
  THEN CHOOSE i \in 1..Len(log) :
         log[i].accepted /\ \A j \in 1..(i - 1) : ~log[j].accepted
  ELSE 0

\* C24: the head patterns are applied in the order of the list up to and
\* including the first one whose result is accepted (all of them if none
\* is), the later head patterns are not applied; every tail pattern is
\* applied, in the order of the list; a result replaces the current text
\* exactly when it is more than 8 characters shorter, and otherwise the next
\* pattern is applied to the unchanged text.
C24_HeadStopsAtFirstAccepted ==
  trim_pc \in {"scan", "returned"} =>
    /\ LET n == FirstAccepted(HeadLog)
       IN  /\ Len(HeadLog) = IF n = 0 THEN Len(head_patterns) ELSE n
           /\ PatsOf(HeadLog) = SubSeq(head_patterns, 1, Len(HeadLog))
    /\ PatsOf(TailLog(1)) = tail_patterns
    /\ ThresholdObserved

\* the Search pattern was accepted and ended the head loop on a text that the
\* Menu pattern would have shortened by more than 8 characters, and a tail
\* pattern matched but shortened the text by 8 characters or fewer
C24_Witness ==
  /\ TrimReturned
  /\ \E i \in 1..Len(trim_log) :
       /\ trim_log[i].phase = "head" /\ trim_log[i].pat = 74 /\ trim_log[i].accepted
       /\ Accepted(ReSub(75, trim_log[i].result), trim_log[i].result)
  /\ \E j \in 1..Len(trim_log) :
       /\ trim_log[j].phase = "tail" /\ ~trim_log[j].accepted
       /\ trim_log[j].result # trim_log[j].before

\* C25: the tail patterns are applied in at most two passes; once the tail
\* loops are over, a second pass was made exactly when a tail pattern was
\* accepted in the first pass, it went over all the tail patterns, and there
\* is no third pass.
C25_AtMostTwoTailPasses ==
  /\ tail_pass <= 2
  /\ \A i \in 1..Len(trim_log) : trim_log[i].pass \in {1, 2}
  /\ trim_pc \in {"scan", "returned"} =>
       LET second == \E i \in 1..Len(TailLog(1)) : TailLog(1)[i].accepted
       IN  /\ (tail_pass = 2) = second
           /\ PatsOf(TailLog(2)) = IF second THEN tail_patterns ELSE <<>>

\* the second pass accepted a pattern, and the function returned after it
C25_Witness ==
  /\ TrimReturned
  /\ tail_pass = 2
  /\ \E i \in 1..Len(trim_log) :
       trim_log[i].phase = "tail" /\ trim_log[i].pass = 2 /\ trim_log[i].accepted

\* C26 as stated: the returned text is empty, or neither its first nor its
\* last line holds a boilerplate phrase.
C26_NoBoilerplateAtEnds ==
  TrimReturned =>
    LET lines == SplitLines(trim_result)
    IN  \/ trim_result = <<>>
        \/ ~IsNonContent(lines[1]) /\ ~IsNonContent(lines[Len(lines)])

\* ------------------------------------------------ query_document: claims
QueryEnded == q_pc \in {"returned", "raised"}
Ranked == q_pc = "returned" /\ Len(store[doc_name].embeddings) > 0
Rows == Len(store[doc_name].embeddings)

\* the names listed in a ", "-separated string
RECURSIVE NamesListed(_, _, _)
NamesListed(s, cur, acc) ==
  IF s = <<>> THEN IF cur = <<>> THEN acc ELSE Append(acc, cur)
  ELSE IF Head(s) = "," THEN NamesListed(Tail(s), <<>>, Append(acc, cur))
  ELSE IF Head(s) = " " /\ cur = <<>> THEN NamesListed(Tail(s), cur, acc)
  ELSE NamesListed(Tail(s), Append(cur, Head(s)), acc)

\* C5: a query for a name that is not a key of the store raises KeyError,
\* whose message lists every document name of the store in sorted order,
\* and returns no results.
C5_NotFoundListsSortedNames ==
  (QueryEnded /\ doc_name \notin DOMAIN store)
    => /\ q_pc = "raised" /\ q_error.type = "KeyError" /\ results = <<>>
       /\ LET listed == NamesListed(q_error.available, <<>>, <<>>)
          IN  /\ Range(listed) = DOMAIN store
              /\ Len(listed) = Cardinality(DOMAIN store)
              /\ \A i, j \in 1..Len(listed) : i < j => StrLess(listed[i], listed[j])

C5_Witness ==
  /\ q_pc = "raised" /\ q_error.type = "KeyError"
  /\ doc_name = <<"a">> /\ DOMAIN store = {<<"a", "b">>, <<"b">>}
  /\ q_error.available = <<"a", "b", ",", " ", "b">>

\* C6 as stated: a query on a stored document whose matrix has zero rows
\* returns [] for every top_k and does not raise.
C6_NoRowsReturnsEmpty ==
  (QueryEnded /\ doc_name \in DOMAIN store /\ Len(store[doc_name].embeddings) = 0)
    => q_pc = "returned" /\ results = <<>>

\* the document's chunks are the list the builder writes: N full entries
BuiltList(name) ==
  store[name].chunks = ListOf(MetaList("full", Len(store[name].embeddings)))

\* position of row r in top_indices (0 when it was not selected)
PosOf(r) ==
  IF \E i \in 1..Len(top_indices) : top_indices[i] = r
  THEN CHOOSE i \in 1..Len(top_indices) : top_indices[i] = r ELSE 0

\* position of the result for row r of a built list (0 when there is none)
ResultPos(r) ==
  IF \E i \in 1..Len(results) : results[i].chunk_index = r
  THEN CHOOSE i \in 1..Len(results) : results[i].chunk_index = r ELSE 0

\* C7 as stated: of two rows with equal similarity the one with the lower
\* index is preferred for the top_k and comes first in the result list.
C7_TiesAscendingIndex ==
  (Ranked /\ BuiltList(doc_name) /\ top_k >= 1)
    => \A a, b \in 0..(Rows - 1) :
         (a < b /\ similarities[a] = similarities[b] /\ ResultPos(b) # 0)
           => (ResultPos(a) # 0 /\ ResultPos(a) < ResultPos(b))

\* C7 amended: similarity alone decides: a row of strictly higher similarity
\* is preferred for the top_k over, and comes before, any row of lower
\* similarity; among rows of equal similarity neither the choice nor the
\* order goes by ascending index.
C7_HigherSimilarityFirst ==
  (Ranked /\ top_k >= 1)
    => \A a, b \in 0..(Rows - 1) :
         /\ (similarities[a] > similarities[b] /\ PosOf(b) # 0)
              => (PosOf(a) # 0 /\ PosOf(a) < PosOf(b))
         /\ (BuiltList(doc_name) /\ similarities[a] > similarities[b] /\ ResultPos(b) # 0)
              => (ResultPos(a) # 0 /\ ResultPos(a) < ResultPos(b))

C7_Witness ==
  /\ Ranked /\ BuiltList(doc_name) /\ top_k = 2 /\ Rows = 3
  /\ similarities[0] = similarities[1] /\ similarities[1] > similarities[2]
  /\ Len(results) = 2 /\ results[1].chunk_index = 1 /\ results[2].chunk_index = 0

\* the list items carry their text (full dict entries or plain strings)
TextList(name) ==
  \E kind \in {"full", "str"} :
    store[name].chunks = ListOf(MetaList(kind, Len(store[name].embeddings)))

\* C8: for top_k >= 1 the results are in order of non-increasing similarity,
\* and when top_k exceeds the N chunks of a list-stored document the result
\* holds all N chunks, each once.
C8_DescendingAndComplete ==
  (Ranked /\ top_k >= 1)
    => /\ \A i \in 1..(Len(results) - 1) :
            results[i].similarity >= results[i + 1].similarity
       /\ (top_k > Rows /\ TextList(doc_name))
            => /\ Len(results) = Rows
               /\ \A r \in 0..(Rows - 1) :
                    Cardinality({i \in 1..Len(results) : results[i].text = TextAt(r)}) = 1

C8_Witness ==
  /\ Ranked /\ TextList(doc_name) /\ Rows = 3 /\ top_k > Rows
  /\ Len(results) = 3
  /\ results[1].similarity > results[2].similarity
  /\ results[2].similarity > results[3].similarity

Pairs(rs) == [i \in 1..Len(rs) |-> <<rs[i].chunk_index, rs[i].text>>]

\* the metadata of a collection in position order, when it is a list or a
\* dict keyed by the positions (as int or as str)
PositionalShape(c) ==
  \/ c.kind = "list"
  \/ /\ c.kind = "dict"
     /\ \/ \A i \in 1..Len(c.items) : c.items[i][1] = IntKey(i - 1)
        \/ \A i \in 1..Len(c.items) : c.items[i][1] = StrKey(i - 1)
MetasOf(c) ==
  IF c.kind = "list" THEN c.items ELSE [i \in 1..Len(c.items) |-> c.items[i][2]]

\* C9: the (chunk_index, text) pairs returned are the same whether the
\* metadata is stored as a list, as a dict keyed "0", "1", ... or as a dict
\* keyed 0, 1, ...
C9_ListAndMappingAgree ==
  (Ranked /\ top_k >= 1 /\ PositionalShape(store[doc_name].chunks))
    => LET ms == MetasOf(store[doc_name].chunks)
           asList == BuildResults(ListOf(ms), similarities, top_indices)
           asStr == BuildResults(StrMapOf(ms), similarities, top_indices)
           asInt == BuildResults(IntMapOf(ms), similarities, top_indices)
       IN  /\ Pairs(results) = Pairs(asList)
           /\ Pairs(asStr) = Pairs(asList)
           /\ Pairs(asInt) = Pairs(asList)

C9_Witness ==
  /\ Ranked /\ top_k = 2 /\ Rows >= 2
  /\ store[doc_name].chunks = StrMapOf(MetaList("full", Rows))
  /\ Len(results) = 2 /\ results[1].chunk_index # results[2].chunk_index

\* the numeric value by which the keys of a mapping are ordered
NumericValue(k) == IF k.t \in {"int", "str"} /\ k.n >= 0 THEN k.n ELSE Infinity

\* the position (in insertion order) of the pair whose key is the n-th
\* (n = 0, 1, ...) by numeric value, earlier insertion first among equals
NthByValue(pairs, n) ==
  CHOOSE p \in 1..Len(pairs) :
    Cardinality({o \in 1..Len(pairs) :
                   \/ NumericValue(pairs[o][1]) < NumericValue(pairs[p][1])
                   \/ /\ NumericValue(pairs[o][1]) = NumericValue(pairs[p][1])
                      /\ o < p}) = n

\* the chain of the claim for row i of a mapping: <<position of the pair>>,
\* or <<>> when the row is skipped
ChainPosition(pairs, i) ==
  IF \E p \in 1..Len(pairs) : pairs[p][1] = IntKey(i)
  THEN <<CHOOSE p \in 1..Len(pairs) : pairs[p][1] = IntKey(i)>>
  ELSE IF \E p \in 1..Len(pairs) : pairs[p][1] = StrKey(i)
  THEN <<CHOOSE p \in 1..Len(pairs) : pairs[p][1] = StrKey(i)>>
  ELSE IF i < Len(pairs) THEN <<NthByValue(pairs, i)>>
  ELSE <<>>

\* the metadata the chain gives for the selected rows, skipped rows left out
RECURSIVE ChainMetas(_, _)
ChainMetas(pairs, idxs) ==
  IF idxs = <<>> THEN <<>>
  ELSE LET at == ChainPosition(pairs, Head(idxs))
       IN  (IF at = <<>> THEN <<>> ELSE <<pairs[at[1]][2]>>)
           \o ChainMetas(pairs, Tail(idxs))

\* the call got as far as decoding the selected rows of a mapping
DecodedMapping ==
  /\ QueryEnded
  /\ top_indices # <<>>
  /\ store[doc_name].chunks.kind = "dict"

\* C27: for a mapping-shaped collection every selected row is resolved by
\* the chain int key, str key, position among the keys sorted by numeric
\* value, skip: the call returns, and its results carry, in order, the
\* metadata the chain gives.
C27_MappingResolvedByChain ==
  DecodedMapping =>
    /\ q_pc = "returned"
    /\ LET metas == ChainMetas(store[doc_name].chunks.items, top_indices)
       IN  /\ Len(results) = Len(metas)
           /\ \A r \in 1..Len(results) :
                /\ results[r].text = metas[r].text
                /\ results[r].chunk_index = metas[r].chunk_index

\* C28: for every top_k >= 0 and a document whose N >= 1 chunks are stored
\* as a list of N entries, the call returns min(top_k, N) results, never
\* more than top_k, and no row that was left out has a higher similarity
\* than a returned one.
C28_AtMostTopKBestRows ==
  (Ranked /\ BuiltList(doc_name)) =>
    /\ Len(results) = Min(top_k, Rows)
    /\ Len(results) <= top_k
    /\ \A a, b \in 0..(Rows - 1) :
         (ResultPos(a) # 0 /\ ResultPos(b) = 0) => similarities[a] >= similarities[b]

\* the entry of the collection that row i is resolved to: <<position in the
\* list, or in the insertion order of the mapping>>, <<>> when skipped
ResolvedPosition(c, i) ==
  IF c.kind = "list" THEN (IF i < Len(c.items) THEN <<i + 1>> ELSE <<>>)
  ELSE ChainPosition(c.items, i)

\* the entry whose effective position is i: the i-th of the list, or the
\* i-th of the mapping in the order of its keys
EffectivePosition(c, i) ==
  IF c.kind = "list" THEN i + 1 ELSE NthByValue(c.items, i)

\* C30: in one result, two different selected rows are never resolved to
\* the same entry of the chunk collection (list or mapping), and a row i
\* that is resolved is resolved to the entry whose effective position is i.
C30_DistinctRowsDistinctChunks ==
  (Ranked /\ store[doc_name].chunks.kind \in {"list", "dict"}) =>
    LET c == store[doc_name].chunks
    IN  /\ \A x, y \in 1..Len(top_indices) :
             (x # y /\ ResolvedPosition(c, top_indices[x]) # <<>>)
               => ResolvedPosition(c, top_indices[x]) # ResolvedPosition(c, top_indices[y])
        /\ \A x \in 1..Len(top_indices) :
             ResolvedPosition(c, top_indices[x]) # <<>>
               => ResolvedPosition(c, top_indices[x])[1] = EffectivePosition(c, top_indices[x])

\* ---------------------------------------------------------- main: claims
Persisted == b_pc = "done" /\ output_file.exists

ChunksOfDocument(n) == chunk_text(documents[n], build_sizes[1], build_sizes[2])

\* C10: the persisted store has an entry for exactly the input documents
\* whose (trimmed) text gives at least one chunk.
C10_StoreHoldsChunkedDocuments ==
  Persisted =>
    DOMAIN output_file.content = {n \in DOMAIN documents : ChunksOfDocument(n) # <<>>}

C10_Witness ==
  /\ Persisted
  /\ Cardinality(DOMAIN documents) = 2
  /\ Cardinality(DOMAIN output_file.content) = 1
  /\ \E n \in DOMAIN output_file.content :
       Len(output_file.content[n].embeddings) = 3
  /\ \E n \in DOMAIN documents : ChunksOfDocument(n) = <<>>

\* C11: when the documents give no chunk record at all, the build is over
\* as soon as the records are collected: without an error, without any
\* embedding request and without a file at the output path.
C11_NoChunksNoStore ==
  (b_pc # "start" /\ chunk_records = <<>>) =>
    /\ b_pc = "done"
    /\ requests = <<>>
    /\ ~output_file.exists

C11_Witness ==
  /\ b_pc = "done"
  /\ Cardinality(DOMAIN documents) = 2
  /\ chunk_records = <<>>
  /\ requests = <<>>
  /\ output_file = NoFile

\* the batches of the embedding loop that have been answered
BatchesAnswered == CeilDiv(Len(enriched_records), batch_size)

\* C12: a failed embedding call ends the build with the failing request as
\* the last one and nothing at the output path; a file at the output path
\* means that every batch was requested and answered.
C12_FailureLeavesNoStore ==
  /\ b_pc = "failed" =>
       /\ ~output_file.exists
       /\ Len(requests) = BatchesAnswered + 1
       /\ Len(enriched_records) < Len(chunk_records)
  /\ output_file.exists =>
       /\ b_pc = "done"
       /\ Len(enriched_records) = Len(chunk_records)
       /\ Len(requests) = CeilDiv(Len(chunk_records), batch_size)
       /\ BatchesAnswered = Len(requests)

C12_Witness ==
  /\ b_pc = "failed"
  /\ Len(requests) = 2
  /\ CeilDiv(Len(chunk_records), batch_size) = 3
  /\ enriched_records # <<>>
  /\ output_file = NoFile

\* C13: the store load_vector_store returns for a file the builder wrote
\* has the documents of the file and, for each of them, the same chunks and
\* a matrix with as many rows, as many columns and the same 32-bit values,
\* row for row.
C13_LoadReturnsPersistedStore ==
  load_pc = "loaded" =>
    /\ DOMAIN loaded_store = DOMAIN output_file.content
    /\ \A name \in DOMAIN loaded_store :
         LET read == loaded_store[name]
             written == output_file.content[name]
         IN  /\ read.chunks = written.chunks
             /\ Len(read.embeddings) = Len(written.embeddings)
             /\ \A i \in 1..Len(written.embeddings) :
                  /\ Len(read.embeddings[i]) = Len(written.embeddings[i])
                  /\ \A j \in 1..Len(written.embeddings[i]) :
                       read.embeddings[i][j] = Float32(written.embeddings[i][j])
                  /\ read.embeddings[i] = written.embeddings[i]

\* two documents are read back, one of two rows, and a coordinate is one
\* that the builder had to round to 32 bits
C13_Witness ==
  /\ load_pc = "loaded"
  /\ Cardinality(DOMAIN loaded_store) = 2
  /\ \E name \in DOMAIN loaded_store :
       /\ Len(loaded_store[name].embeddings) = 2
       /\ \E i \in 1..2 :
            /\ loaded_store[name].embeddings[i][1] = 16777220
            /\ ProviderEmbedding(loaded_store[name].chunks.items[i].text)[1] = 16777219

\* C14: when nothing is at the path, load_vector_store raises
\* FileNotFoundError without having opened the file and returns no store.
C14_MissingFileRaisesBeforeRead ==
  (load_pc \in {"loaded", "raised"} /\ ~output_file.exists) =>
    /\ load_pc = "raised"
    /\ load_error = "FileNotFoundError"
    /\ file_reads = 0
    /\ loaded_store = <<>>

C14_Witness ==
  /\ load_pc = "raised"
  /\ load_error = "FileNotFoundError"
  /\ file_reads = 0
  /\ b_pc = "failed"
  /\ ~output_file.exists

FileEntries == {output_file.content[n] : n \in DOMAIN output_file.content}

C16_RowsAlignedWithChunks ==
  Persisted =>
    \A name \in DOMAIN output_file.content :
      LET entry == output_file.content[name]
          cs == ChunksOfDocument(name)
          N == Len(cs)
      IN  /\ entry.chunks.kind = "list"
          /\ Len(entry.chunks.items) = N
          /\ Len(entry.embeddings) = N
          /\ \A i \in 0..(N - 1) :
               /\ entry.chunks.items[i + 1].chunk_index = i
               /\ entry.chunks.items[i + 1].text = cs[i + 1]
               /\ entry.embeddings[i + 1] =
                    <<Float32(ProviderEmbedding(cs[i + 1])[1]),
                      Float32(ProviderEmbedding(cs[i + 1])[2])>>

\* two documents of three chunks each, embedded in batches of two, so that a
\* batch holds chunks of both documents
C16_Witness ==
  /\ Persisted
  /\ batch_size = 2
  /\ Cardinality(DOMAIN output_file.content) = 2
  /\ \A name \in DOMAIN output_file.content :
       /\ Len(output_file.content[name].embeddings) = 3
       /\ output_file.content[name].embeddings[1] # output_file.content[name].embeddings[2]

\* records lo+1 .. hi of the flat list, numbered from 1
BatchOf(j) ==
  SubSeq(chunk_records, j * batch_size + 1,
         Min(Len(chunk_records), (j + 1) * batch_size))

\* C17: the requests issued are the consecutive slices of batch_size
\* records, in order; a build that embedded everything has issued
\* ceil(N / B) of them, every record is in exactly one, and the enriched
\* records are the records in input order, each with the embedding of its text.
C17_BatchesPartitionRecords ==
  /\ \A j \in 0..(Len(requests) - 1) : requests[j + 1] = BatchOf(j)
  /\ (b_pc \in {"embedding", "done"} /\ chunk_records # <<>>
        /\ ~(batch_start < Len(chunk_records))) =>
       /\ Len(requests) = CeilDiv(Len(chunk_records), batch_size)
       /\ \A i \in 1..Len(chunk_records) :
            Cardinality({jp \in (1..Len(requests)) \X (1..batch_size) :
                           /\ jp[2] <= Len(requests[jp[1]])
                           /\ requests[jp[1]][jp[2]] = chunk_records[i]}) = 1
       /\ Len(enriched_records) = Len(chunk_records)
       /\ \A i \in 1..Len(chunk_records) :
            /\ enriched_records[i].doc_name = chunk_records[i].doc_name
            /\ enriched_records[i].chunk_index = chunk_records[i].chunk_index
            /\ enriched_records[i].text = chunk_records[i].text
            /\ enriched_records[i].embedding = ProviderEmbedding(chunk_records[i].text)

\* five records in batches of two: three requests, the last of one record
C17_Witness ==
  /\ b_pc = "done"
  /\ Len(chunk_records) = 5
  /\ batch_size = 2
  /\ Len(requests) = 3
  /\ Len(requests[3]) = 1
  /\ Len(enriched_records) = 5

\* requests sent and not yet answered (a failed request was answered by an error)
Outstanding ==
  Len(requests) - BatchesAnswered - (IF b_pc = "failed" THEN 1 ELSE 0)

\* C18: at most one embedding request is outstanding, a request is
\* outstanding exactly while the build waits for it, every earlier request
\* was answered before the latest one was sent, and no batch is sent twice.
C18_RequestsSequentialNoRetry ==
  /\ Outstanding \in {0, 1}
  /\ Outstanding = 1 <=> b_pc = "waiting"
  /\ Len(requests) <= BatchesAnswered + 1
  /\ \A i \in 1..Len(requests) : \A j \in 1..Len(requests) :
       i # j => requests[i] # requests[j]

C18_Witness ==
  /\ b_pc = "waiting"
  /\ Len(requests) = 3
  /\ BatchesAnswered = 2
  /\ Outstanding = 1

\* ------------------------------------------- query_document: the store
\* C19: no step of query_document changes the store, whether the call
\* returns results, returns [] or raises; every later query therefore sees
\* the store as it was loaded.
C19_StoreNeverModified == [][store' = store]_vars

\* a query has raised on a store of two documents, one of them with rows
\* and a chunk mapping
C19_Witness ==
  /\ q_pc = "raised"
  /\ q_error.type = "KeyError"
  /\ DOMAIN store = {<<"a">>, <<"b">>}
  /\ Len(store[<<"a">>].embeddings) = 3
  /\ store[<<"a">>].chunks.kind = "dict"

\* C20: query_document does not raise while decoding the selected rows,
\* whatever the chunk collection is: a row without a chunk is skipped, and
\* a collection that is neither a list nor a mapping gives no result.
C20_ShapeNeverRaises ==
  /\ q_pc = "raised" => q_error.type \in {"KeyError", "APIError"}
  /\ (Ranked /\ store[doc_name].chunks.kind = "other") => results = <<>>

\* ------------------------------------------------- similarity: claims
\* the distance of a similarity from 1.0, in units of 1e-6
OffOne(sim) == IF sim > 1000000 THEN sim - 1000000 ELSE 1000000 - sim

====
